---- MODULE Spec2Model ----
(***************************************************************************)
(* Model of simple_detailed_error: SimpleError trees, their rendering into *)
(* SimpleErrorDisplayInfo and the text produced by as_display_string.      *)
(*                                                                         *)
(* A String is a sequence of characters, each character a one-element      *)
(* TLA+ string; "\n" is the line feed.  Option<T> is a sequence of length  *)
(* 0 (None) or 1 (Some).                                                   *)
(***************************************************************************)
EXTENDS Integers, Sequences, FiniteSets, TLC

\* ---------------------------------------------------------------- bounds
\* Largest number of SimpleError values alive at once (nodes of all trees).
MaxNodes == 4

\* Largest number of SimpleError values alive at once when every field is in use.
MaxFieldNodes == 2

\* Largest number of render calls made on one error.
MaxRenders == 2

\* The most strings given to one call of join_strings.
MaxStrings == 3

\* The most errors of a tree whose leaves are asked for.
MaxLeafNodes == 4

\* The most markers given to one call of colorize.
MaxMarkers == 2

\* Largest number handed to pluralize.
MaxCount == 11

\* usize::MAX, scaled to the integers TLC computes with; only ever compared
\* with the length of a field label.
USIZE_MAX == 2147483647

\* ---------------------------------------------------------------- Option
None == <<>>

Some(x) == <<x>>

is_some(o) == Len(o) = 1

is_none(o) == Len(o) = 0

unwrap(o) == o[1]

\* ---------------------------------------------------------------- str
is_whitespace(c) == c \in {" ", "\n"}

RECURSIVE trim_start(_)
trim_start(s) ==
    IF Len(s) = 0 THEN s
    ELSE IF is_whitespace(Head(s)) THEN trim_start(Tail(s)) ELSE s

RECURSIVE trim_end(_)
trim_end(s) ==
    IF Len(s) = 0 THEN s
    ELSE IF is_whitespace(s[Len(s)]) THEN trim_end(SubSeq(s, 1, Len(s) - 1)) ELSE s

\* str::trim
trim(s) == trim_end(trim_start(s))

\* Index of the first line feed of s, 0 when there is none.
first_line_feed(s) ==
    IF \E i \in 1..Len(s) : s[i] = "\n"
    THEN CHOOSE i \in 1..Len(s) : s[i] = "\n" /\ \A j \in 1..(i - 1) : s[j] # "\n"
    ELSE 0

RECURSIVE split_line_feed(_)
split_line_feed(s) ==
    LET i == first_line_feed(s)
    IN  IF i = 0 THEN <<s>>
        ELSE <<SubSeq(s, 1, i - 1)>> \o split_line_feed(SubSeq(s, i + 1, Len(s)))

\* str::lines: the pieces between line feeds; a final empty piece is dropped.
lines(s) ==
    LET pieces == split_line_feed(s)
    IN  IF Len(pieces[Len(pieces)]) = 0 THEN SubSeq(pieces, 1, Len(pieces) - 1)
        ELSE pieces

Digit(d) == <<"0", "1", "2", "3", "4", "5", "6", "7", "8", "9">>[d + 1]

\* usize as decimal text (Display for usize)
RECURSIVE to_string(_)
to_string(n) ==
    IF n < 10 THEN <<Digit(n)>> ELSE to_string(n \div 10) \o <<Digit(n % 10)>>

\* usize::checked_add
checked_add(a, b) == IF a > USIZE_MAX - b THEN None ELSE Some(a + b)

Min(a, b) == IF a < b THEN a ELSE b

\* ---------------------------------------------------------------- literals
STR_Position == <<"P", "o", "s", "i", "t", "i", "o", "n">>

STR_At == <<"A", "t">>

STR_Error == <<"E", "r", "r", "o", "r">>

STR_Solution == <<"S", "o", "l", "u", "t", "i", "o", "n">>

STR_Has == <<"H", "a", "s">>

STR_Cause == <<"C", "a", "u", "s", "e">>

STR_Causes == <<"C", "a", "u", "s", "e", "s">>

STR_ColonSpace == <<":", " ">>

STR_DashSpace == <<"-", " ">>

STR_UnexplainedError ==
    <<"U", "n", "e", "x", "p", "l", "a", "i", "n", "e", "d", " ", "e", "r", "r", "o", "r">>

STR_ErrorUnexplainedError == STR_Error \o STR_ColonSpace \o STR_UnexplainedError

STR_OnLine == <<"O", "n", " ", "l", "i", "n", "e", " ">>

STR_AndColumn == <<" ", "a", "n", "d", " ", "c", "o", "l", "u", "m", "n", " ">>

STR_UpToLine == <<" ", "u", "p", " ", "t", "o", " ", "l", "i", "n", "e", " ">>

STR_UnexplainedCause ==
    <<"u", "n", "e", "x", "p", "l", "a", "i", "n", "e", "d", " ", "c", "a", "u", "s", "e">>

STR_ExplainedCause ==
    <<"e", "x", "p", "l", "a", "i", "n", "e", "d", " ", "c", "a", "u", "s", "e">>

STR_And == <<" ", "a", "n", "d", " ">>

\* "- Cause n<ordinal indicator> "; the ordinal indicator is the one character "^o"
STR_CauseNo == <<"-", " ", "C", "a", "u", "s", "e", " ", "n", "^o", " ">>

STR_SpaceDash == <<" ", "-">>

LF == <<"\n">>

\* ---------------------------------------------------------------- formatting.rs
\* pluralize with the s of the plural on every number
pluralize_always_plural(n, word_to_pluralize, on_empty) ==
    IF n = 0 THEN on_empty
    ELSE to_string(n) \o <<" ">> \o word_to_pluralize \o <<"s">>

pluralize(n, word_to_pluralize, on_empty) ==
    IF n = 0 THEN on_empty
    ELSE IF n = 1 THEN <<"1", " ">> \o word_to_pluralize
    ELSE to_string(n) \o <<" ">> \o word_to_pluralize \o <<"s">>

\* The for_each of join_strings from item i on: res so far, is_first_string.
RECURSIVE join_strings_from(_, _, _, _, _)
join_strings_from(separator, strings, i, res, is_first_string) ==
    IF i > Len(strings) THEN res
    ELSE join_strings_from(separator, strings, i + 1,
                           (IF is_first_string THEN res ELSE res \o separator) \o strings[i],
                           FALSE)

\* join_strings over the strings that are not empty.
join_strings_of_non_empty(separator, strings) ==
    LET NotEmpty(string) == Len(string) > 0
    IN  join_strings_from(separator, SelectSeq(strings, NotEmpty), 1, <<>>, TRUE)

join_strings(separator, strings) == join_strings_from(separator, strings, 1, <<>>, TRUE)

\* Every line behind the spacing, the first one too.
ident_lines_with_first(prefixed_contents, spaces) ==
    LET spacing == [k \in 1..spaces |-> " "]
        ls == lines(prefixed_contents)
    IN  join_strings(LF, [k \in 1..Len(ls) |-> spacing \o ls[k]])

ident_lines_except_first(prefixed_contents, spaces) ==
    LET spacing == [k \in 1..spaces |-> " "]
        ls == lines(prefixed_contents)
    IN  join_strings(LF, [k \in 1..Len(ls) |-> IF k = 1 THEN ls[k] ELSE spacing \o ls[k]])

\* ---------------------------------------------------------------- simple_error_display_info.rs
SimpleErrorDisplayInfo_new(at, reason, solution, on_line_and_column, up_to_line_an_column, unexplained_causes, explained_causes) ==
    [at |-> at, reason |-> reason, solution |-> solution,
     on_line_and_column |-> on_line_and_column,
     up_to_line_an_column |-> up_to_line_an_column,
     unexplained_causes |-> unexplained_causes,
     explained_causes |-> explained_causes]

RECURSIVE complexity(_)
RECURSIVE sum_complexity(_, _)
\* self.explained_causes.iter().map(|display| display.complexity()).sum() from cause i on
sum_complexity(displays, i) ==
    IF i > Len(displays) THEN 0
    ELSE complexity(displays[i]) + sum_complexity(displays, i + 1)

\* complexity counting the direct explained causes only
complexity_of_direct_causes(self) == 1 + Len(self.explained_causes)

complexity(self) == 1 + sum_complexity(self.explained_causes, 1)

\* is_explained with the end point counted as well
is_explained_with_end(self) ==
    \/ is_some(self.at)
    \/ is_some(self.reason)
    \/ is_some(self.solution)
    \/ is_some(self.on_line_and_column)
    \/ is_some(self.up_to_line_an_column)
    \/ Len(self.explained_causes) # 0

is_explained(self) ==
    \/ is_some(self.at)
    \/ is_some(self.reason)
    \/ is_some(self.solution)
    \/ is_some(self.on_line_and_column)
    \/ Len(self.explained_causes) # 0

\* Some(text).filter(|string| !string.is_empty()).map(|string| string.trim().to_string())
filter_not_empty_then_trim(o) ==
    IF is_some(o) /\ Len(unwrap(o)) # 0 THEN Some(trim(unwrap(o))) ELSE None

\* One entry of description_lines: the label, the continuation indent and the contents.
\* description_line with the label first and the "- " of a cause after it.
description_line_dash_after_label(prefix_word, max_ident, contents, is_displaying_as_cause_of_other) ==
    LET prefix == prefix_word
                  \o (IF is_displaying_as_cause_of_other THEN STR_DashSpace ELSE <<>>)
                  \o STR_ColonSpace
        prefixed_contents == prefix \o contents
        extra_ident_on_causes == IF is_displaying_as_cause_of_other THEN 2 ELSE 0
        capped == checked_add(max_ident, extra_ident_on_causes)
        spaces == Min(Len(prefix), IF is_some(capped) THEN unwrap(capped) ELSE USIZE_MAX)
    IN  ident_lines_except_first(prefixed_contents, spaces)

description_line(prefix_word, max_ident, contents, is_displaying_as_cause_of_other) ==
    LET prefix == (IF is_displaying_as_cause_of_other THEN STR_DashSpace ELSE <<>>)
                  \o prefix_word \o STR_ColonSpace
        prefixed_contents == prefix \o contents
        extra_ident_on_causes == IF is_displaying_as_cause_of_other THEN 2 ELSE 0
        capped == checked_add(max_ident, extra_ident_on_causes)
        spaces == Min(Len(prefix), IF is_some(capped) THEN unwrap(capped) ELSE USIZE_MAX)
    IN  ident_lines_except_first(prefixed_contents, spaces)

\* numbered_cause with the ordinal counted from 0
numbered_cause_from_zero(cause_no, cause) ==
    STR_CauseNo \o to_string(cause_no) \o STR_SpaceDash \o LF \o cause

\* format!("- Cause n<ordinal> {} -\n{cause}", cause_no + 1), cause_no counted from 0
numbered_cause(cause_no, cause) ==
    STR_CauseNo \o to_string(cause_no + 1) \o STR_SpaceDash \o LF \o cause

\* causes_count_of with the Has line left out when no cause is explained
causes_count_of_only_explained(unexplained_causes, explained_len) ==
    IF explained_len = 0 \/ (explained_len = 1 /\ unexplained_causes = 0) THEN None
    ELSE Some(pluralize(explained_len, STR_ExplainedCause, <<>>) \o <<".">>)

\* causes_count_of without the omission for just one explained cause
causes_count_of_never_omitted(unexplained_causes, explained_len) ==
    IF unexplained_causes + explained_len = 0 THEN None
    ELSE Some(pluralize(explained_len, STR_ExplainedCause, <<>>)
              \o (IF unexplained_causes > 0 /\ explained_len > 0 THEN STR_And ELSE <<>>)
              \o pluralize(unexplained_causes, STR_UnexplainedCause, <<>>) \o <<".">>)

\* The "Has" contents: note that the code binds the tally of unexplained causes
\* to explained_causes_count and the tally of explained ones to
\* unexplained_causes_count.
causes_count_of(unexplained_causes, explained_len) ==
    LET explained_causes_count ==
            filter_not_empty_then_trim(Some(pluralize(unexplained_causes, STR_UnexplainedCause, <<>>)))
        unexplained_causes_count ==
            filter_not_empty_then_trim(Some(pluralize(explained_len, STR_ExplainedCause, <<>>)))
        causes_is_just_one_explained == explained_len = 1 /\ unexplained_causes = 0
        chosen ==
            IF causes_is_just_one_explained THEN None
            ELSE IF is_some(explained_causes_count) /\ is_some(unexplained_causes_count)
                 THEN Some(unwrap(unexplained_causes_count) \o STR_And \o unwrap(explained_causes_count))
            ELSE IF is_some(explained_causes_count) \/ is_some(unexplained_causes_count)
                 THEN Some(unwrap(IF is_some(explained_causes_count)
                                  THEN explained_causes_count ELSE unexplained_causes_count))
            ELSE None
    IN  IF is_some(chosen) THEN Some(unwrap(chosen) \o <<".">>) ELSE None

\* causes_prefix_of looking at the explained causes alone
causes_prefix_of_explained_alone(unexplained_causes, explained_len) ==
    IF explained_len = 1 THEN STR_Cause ELSE STR_Causes

\* "Cause" or "Causes"
causes_prefix_of(unexplained_causes, explained_len) ==
    IF explained_len = 1 /\ unexplained_causes = 0 THEN STR_Cause ELSE STR_Causes

\* "On line L and column C" and, with an end point, " up to line L2 and column C2"
location_of(self) ==
    IF is_some(self.on_line_and_column)
    THEN Some(STR_OnLine \o to_string(unwrap(self.on_line_and_column)[1])
              \o STR_AndColumn \o to_string(unwrap(self.on_line_and_column)[2])
              \o (IF is_some(self.up_to_line_an_column)
                  THEN STR_UpToLine \o to_string(unwrap(self.up_to_line_an_column)[1])
                       \o STR_AndColumn \o to_string(unwrap(self.up_to_line_an_column)[2])
                  ELSE <<>>))
    ELSE None

\* description_of without the stand-in
description_of_reason_only(self) == self.reason

\* self.reason.clone().or(Some("Unexplained error"))
description_of(self) ==
    IF is_some(self.reason) THEN self.reason ELSE Some(STR_UnexplainedError)

RECURSIVE as_display_string_int(_, _)
\* SimpleErrorDisplayInfo::__as_display_string
as_display_string_int(self, is_displaying_as_cause_of_other) ==
    LET where_ == self.at
        location == location_of(self)
        description == description_of(self)
        solution == self.solution
        causes_count == causes_count_of(self.unexplained_causes, Len(self.explained_causes))
        n == Len(self.explained_causes)
        nested == [k \in 1..n |-> unwrap(as_display_string_int(self.explained_causes[k], TRUE))]
        matched ==
            IF n = 0 THEN None
            ELSE IF n = 1 THEN Some(nested[1])
            ELSE Some(join_strings(LF \o LF, [k \in 1..n |-> numbered_cause(k - 1, nested[k])]))
        explained_causes == IF is_some(matched) THEN Some(LF \o unwrap(matched)) ELSE None
        causes_prefix == causes_prefix_of(self.unexplained_causes, n)
        all_lines == << <<STR_Position, USIZE_MAX, location>>,
                        <<STR_At, USIZE_MAX, where_>>,
                        <<STR_Error, USIZE_MAX, description>>,
                        <<STR_Solution, USIZE_MAX, solution>>,
                        <<STR_Has, USIZE_MAX, causes_count>>,
                        <<causes_prefix, 2, explained_causes>> >>
        HasContents(entry) == is_some(entry[3])
        present == SelectSeq(all_lines, HasContents)
        description_lines ==
            [k \in 1..Len(present) |->
                description_line(present[k][1], present[k][2], unwrap(present[k][3]),
                                 is_displaying_as_cause_of_other)]
    IN  Some(join_strings(LF, description_lines))

\* SimpleErrorDisplayInfo::as_display_string
as_display_string(self) ==
    LET res == as_display_string_int(self, FALSE)
    IN  IF is_some(res) THEN unwrap(res) ELSE STR_ErrorUnexplainedError

\* ---------------------------------------------------------------- colored::control
\* The process-wide flag: the value the environment gives it and the manual
\* override laid over it, None while no override is set.
ShouldColorize_new(env) == [env |-> env, manual_override |-> None]

should_colorize(flag) ==
    IF is_some(flag.manual_override) THEN unwrap(flag.manual_override) ELSE flag.env

set_override(flag, override) == [flag EXCEPT !.manual_override = Some(override)]

unset_override(flag) == [flag EXCEPT !.manual_override = None]

\* ---------------------------------------------------------------- Colorization
\* style_const is a bit set over STYLES: the set of the styles whose bit is 1.
STYLES == <<"Clear", "Bold", "Dimmed", "Underline", "Reversed", "Italic", "Blink",
            "Hidden", "Strikethrough">>

Colorization_new == [foreground |-> None, background |-> None, style_const |-> None]

Colorization_foreground(self, color) == [self EXCEPT !.foreground = Some(color)]

Colorization_background(self, color) == [self EXCEPT !.background = Some(color)]

Colorization_style(self, style) ==
    IF style = "Clear" THEN [self EXCEPT !.style_const = Some({"Clear"})]
    ELSE [self EXCEPT !.style_const =
            Some((IF is_none(self.style_const) THEN {} ELSE unwrap(self.style_const))
                 \cup {style})]

join_const(this, other) ==
    LET this1 == IF is_some(other.foreground)
                 THEN [this EXCEPT !.foreground = other.foreground] ELSE this
        this2 == IF is_some(other.background)
                 THEN [this1 EXCEPT !.background = other.background] ELSE this1
    IN  IF is_some(this2.style_const) /\ is_some(other.style_const)
        THEN LET this_style_const == unwrap(this2.style_const)
                 other_style_const == unwrap(other.style_const)
                 is_clear_style == "Clear" \in other_style_const
             IN  IF is_clear_style
                 THEN [this2 EXCEPT !.style_const = other.style_const,
                                    !.foreground = other.foreground,
                                    !.background = other.background]
                 ELSE [this2 EXCEPT !.style_const =
                                        Some(this_style_const \cup other_style_const)]
        ELSE IF is_some(other.style_const)
             THEN [this2 EXCEPT !.style_const = other.style_const]
             ELSE this2

\* The styles of STYLES whose bit is set, in the order of STYLES.
get_styles(self) ==
    LET IsSet(style) == is_some(self.style_const) /\ style \in unwrap(self.style_const)
    IN  SelectSeq(STYLES, IsSet)

\* ---------------------------------------------------------------- &str and colorize
\* A string slice: the address of its first byte and its characters.
Slice(ptr, chars) == [ptr |-> ptr, chars |-> chars]

mem_dir_of_string(string) == <<string.ptr, string.ptr + Len(string.chars)>>

\* Whether the first range lies inside the second one.
range_contains_other_inside(range_1_start, range_1_end, range_2_start, range_2_end) ==
    range_2_start <= range_1_start /\ range_1_end <= range_2_end

range_contains_other(range_1_start, range_1_end, range_2_start, range_2_end) ==
    range_2_end > range_1_start /\ range_2_start < range_1_end

\* a.checked_sub(b).unwrap_or(0)
checked_sub_or_0(a, b) == IF a < b THEN 0 ELSE a - b

\* The styling primitive of the colored crate: the text between an opening
\* escape sequence and the reset sequence when the flag says to colorize, the
\* text alone when it does not.  Each escape sequence is one character here.
styled(text, code, flag) ==
    IF should_colorize(flag) THEN <<"ESC[" \o code \o "m">> \o text \o <<"ESC[0m">>
    ELSE text

RECURSIVE apply_styles(_, _, _, _)
\* for style in modifier.get_styles() { modified = stylizer(modified) } from style i on
apply_styles(modified, styles, i, flag) ==
    IF i > Len(styles) THEN modified
    ELSE apply_styles(IF styles[i] = "Clear" THEN modified
                      ELSE styled(modified, styles[i], flag),
                      styles, i + 1, flag)

\* One segment's characters with the merged style of the segment applied:
\* background, then foreground, then each style.
modified_of(text, modifier, flag) ==
    LET with_background == IF is_some(modifier.background)
                           THEN styled(text, "on_" \o unwrap(modifier.background), flag)
                           ELSE text
        with_foreground == IF is_some(modifier.foreground)
                           THEN styled(with_background, unwrap(modifier.foreground), flag)
                           ELSE with_background
    IN  apply_styles(with_foreground, get_styles(modifier), 1, flag)

RECURSIVE sorted_seq(_)
\* The elements of a set of numbers in ascending order (sorted().dedup()).
sorted_seq(S) ==
    IF S = {} THEN <<>>
    ELSE LET least == CHOOSE x \in S : \A y \in S : x <= y
         IN  <<least>> \o sorted_seq(S \ {least})

RECURSIVE join_all(_, _, _, _, _)
\* The fold of join_const over the markers that meet [start, end), from marker i on.
join_all(colorization, ranges, i, start, end) ==
    IF i > Len(ranges) THEN colorization
    ELSE join_all(IF range_contains_other(start, end, ranges[i][1], ranges[i][2])
                  THEN join_const(colorization, ranges[i][3]) ELSE colorization,
                  ranges, i + 1, start, end)

\* input_modifiers with the whole-string style, when there is one, pushed last.
with_general_colorization_last(input, input_modifiers, general_colorization) ==
    IF is_some(general_colorization)
    THEN input_modifiers \o <<[str |-> input, colorization |-> unwrap(general_colorization)]>>
    ELSE input_modifiers

\* input_modifiers with the whole-string style, when there is one, inserted first.
with_general_colorization(input, input_modifiers, general_colorization) ==
    IF is_some(general_colorization)
    THEN <<[str |-> input, colorization |-> unwrap(general_colorization)]>> \o input_modifiers
    ELSE input_modifiers

\* A marker that meets [input_start, input_end), as offsets into the input.
relative_range(offset, input_start, input_len) ==
    <<Min(checked_sub_or_0(offset[1], input_start), input_len),
      Min(checked_sub_or_0(offset[2], input_start), input_len),
      offset[3]>>

\* The markers of colorize as (start, end, style) relative to input: markers
\* that do not meet input or are empty dropped.
colorize_ranges(input, input_modifiers) ==
    LET Meets(r) == range_contains_other(r[1], r[2], mem_dir_of_string(input)[1],
                                         mem_dir_of_string(input)[2])
        NotEmpty(r) == r[2] > r[1]
        Relative(met) ==
            [k \in 1..Len(met) |->
                relative_range(met[k], mem_dir_of_string(input)[1], Len(input.chars))]
    IN  SelectSeq(Relative(SelectSeq(
                      [k \in 1..Len(input_modifiers) |->
                          <<mem_dir_of_string(input_modifiers[k].str)[1],
                            mem_dir_of_string(input_modifiers[k].str)[2],
                            input_modifiers[k].colorization>>],
                      Meets)),
                  NotEmpty)

\* The start offsets of the markers alone, ascending and without repeats.
colorize_bounds_of_starts(ranges_and_modifiers) ==
    sorted_seq({ranges_and_modifiers[k][1] : k \in 1..Len(ranges_and_modifiers)})

\* The start and end offsets of the markers, ascending and without repeats.
colorize_bounds(ranges_and_modifiers) ==
    sorted_seq({ranges_and_modifiers[k][1] : k \in 1..Len(ranges_and_modifiers)}
               \cup {ranges_and_modifiers[k][2] : k \in 1..Len(ranges_and_modifiers)})

\* The elementary segments of colorize as (start, end, merged style), ascending:
\* one for each window of two consecutive bounds.
colorize_segments(ranges_and_modifiers, bounds) ==
    [k \in 1..(Len(bounds) - 1) |->
        <<bounds[k], bounds[k + 1],
          join_all(Colorization_new, ranges_and_modifiers, 1, bounds[k], bounds[k + 1])>>]

RECURSIVE replace_segments(_, _, _)
\* The segments replaced the first segment (the lowest start offset) first.
replace_segments_lowest_first(input, segments, flag) ==
    IF Len(segments) = 0 THEN input
    ELSE replace_segments(SubSeq(input, 1, segments[1][1])
                          \o modified_of(SubSeq(input, segments[1][1] + 1, segments[1][2]),
                                         segments[1][3], flag)
                          \o SubSeq(input, segments[1][2] + 1, Len(input)),
                          SubSeq(segments, 2, Len(segments)), flag)

\* The segments replaced by their styled text, the last segment (the highest
\* start offset) first.  Offsets count from 0.
replace_segments(input, segments, flag) ==
    IF Len(segments) = 0 THEN input
    ELSE replace_segments(SubSeq(input, 1, segments[Len(segments)][1])
                          \o modified_of(SubSeq(input, segments[Len(segments)][1] + 1,
                                                segments[Len(segments)][2]),
                                         segments[Len(segments)][3], flag)
                          \o SubSeq(input, segments[Len(segments)][2] + 1, Len(input)),
                          SubSeq(segments, 1, Len(segments) - 1), flag)

colorize(input, input_modifiers, general_colorization, flag) ==
    LET Merged(ranges_and_modifiers) ==
            colorize_segments(ranges_and_modifiers, colorize_bounds(ranges_and_modifiers))
    IN  replace_segments(input.chars,
                         Merged(colorize_ranges(input,
                                    with_general_colorization(input, input_modifiers,
                                                              general_colorization))),
                         flag)

\* ---------------------------------------------------------------- simple_error_explanation.rs
SimpleErrorExplanation_new ==
    [explanation |-> None, solution |-> None, whole_marker |-> None,
     colorization_markers |-> <<>>]

\* Some(text).map(|text| text.trim().to_string()).filter(|text| !text.is_empty())
trim_then_filter_not_empty(text) == IF Len(trim(text)) # 0 THEN Some(trim(text)) ELSE None

SimpleErrorExplanation_explanation(self, explanation) ==
    [self EXCEPT !.explanation = trim_then_filter_not_empty(explanation)]

SimpleErrorExplanation_solution(self, solution) ==
    [self EXCEPT !.solution = trim_then_filter_not_empty(solution)]

whole_input_colorization(self, complete_marker) ==
    [self EXCEPT !.whole_marker = Some(complete_marker)]

colorization_marker(self, string, colorization) ==
    [self EXCEPT !.colorization_markers =
                     Append(@, [str |-> string, colorization |-> colorization])]

\* ---------------------------------------------------------------- simple_error.rs
SimpleError_new ==
    [where_ |-> None, error_detail |-> None, start_point_of_error |-> None,
     end_point_of_error |-> None, causes |-> <<>>]

\* The detail is held as the explanation its explain_error returns.
error_detail(self, detail) == [self EXCEPT !.error_detail = Some(detail)]

at(self, location_str) == [self EXCEPT !.where_ = Some(location_str)]

start_point_of_error(self, line, column) ==
    [self EXCEPT !.start_point_of_error = Some(<<line, column>>)]

end_point_of_error(self, line, column) ==
    [self EXCEPT !.end_point_of_error = Some(<<line, column>>)]

add_cause(self, cause) == [self EXCEPT !.causes = Append(@, cause)]

with_cause(self, cause) == add_cause(self, cause)

without_causes(self) == [self EXCEPT !.causes = <<>>]

\* error_detail.explain_error()
explain_error(detail) == detail

RECURSIVE sort_by_key_from(_, _, _)
\* explained_causes.sort_by_key(|error| error.complexity()): a stable sort, here by
\* inserting cause i and the following ones behind every cause already placed
\* whose key is not greater.
sort_by_key_from(displays, i, sorted) ==
    IF i > Len(displays) THEN sorted
    ELSE LET key == complexity(displays[i])
             before == Cardinality({k \in 1..Len(sorted) : complexity(sorted[k]) <= key})
         IN  sort_by_key_from(displays, i + 1,
                              SubSeq(sorted, 1, before) \o <<displays[i]>>
                              \o SubSeq(sorted, before + 1, Len(sorted)))

\* sort_by_key by an unstable sort: causes of equal key come out in reverse
sort_by_key_unstable(displays) ==
    sort_by_key_from([k \in 1..Len(displays) |-> displays[Len(displays) + 1 - k]], 1, <<>>)

sort_by_key(displays) == sort_by_key_from(displays, 1, <<>>)

\* The at of a node: the colorized location, dropped when empty, then trimmed.
where_of(self, error_explanation, flag) ==
    IF is_some(self.where_)
    THEN filter_not_empty_then_trim(
             Some(colorize(unwrap(self.where_), error_explanation.colorization_markers,
                           error_explanation.whole_marker, flag)))
    ELSE None

\* unexplained_causes_of with the tally set instead of incremented
unexplained_causes_of_set_to_one(causes) ==
    IF \E k \in 1..Len(causes) : ~is_explained(causes[k]) THEN 1 ELSE 0

\* The tally the filter closure keeps: one more for each cause not explained.
unexplained_causes_of(causes) ==
    LET NotExplained(cause) == ~is_explained(cause)
    IN  Len(SelectSeq(causes, NotExplained))

\* The causes the filter closure lets through, in the order of the causes.
explained_causes_of(causes) == SelectSeq(causes, is_explained)

RECURSIVE as_display_struct_int(_, _)
\* SimpleError::__as_display_struct, under the flag the styling primitive reads
as_display_struct_int(self, flag) ==
    LET Rendered(error_explanation, causes) ==
            SimpleErrorDisplayInfo_new(where_of(self, error_explanation, flag),
                                       error_explanation.explanation,
                                       error_explanation.solution,
                                       self.start_point_of_error, self.end_point_of_error,
                                       unexplained_causes_of(causes),
                                       sort_by_key(explained_causes_of(causes)))
    IN  Rendered(IF is_some(self.error_detail)
                 THEN explain_error(unwrap(self.error_detail))
                 ELSE SimpleErrorExplanation_new,
                 [k \in 1..Len(self.causes) |-> as_display_struct_int(self.causes[k], flag)])

\* as_display_struct without the override: colorize is not looked at
as_display_struct_without_override(self, colorize_, flag) ==
    [res |-> as_display_struct_int(self, flag), flag |-> flag]

\* as_display_struct with the check of the flag negated
as_display_struct_negated_check(self, colorize_, flag) ==
    IF ~colorize_ /\ ~should_colorize(flag)
    THEN [res |-> as_display_struct_int(self, set_override(flag, FALSE)),
          flag |-> set_override(flag, TRUE)]
    ELSE [res |-> as_display_struct_int(self, flag), flag |-> flag]

\* as_display_struct forcing whenever colorize is false, whatever the flag says.
as_display_struct_forced_without_check(self, colorize_, flag) ==
    LET forced_no_colorization == ~colorize_
        during == IF forced_no_colorization THEN set_override(flag, FALSE) ELSE flag
        res == as_display_struct_int(self, during)
        after == IF forced_no_colorization THEN set_override(during, TRUE) ELSE during
    IN  [res |-> res, flag |-> after]

\* SimpleError::as_display_struct: the rendered info and the flag it leaves.
as_display_struct(self, colorize_, flag) ==
    LET forced_no_colorization == ~colorize_ /\ should_colorize(flag)
        during == IF forced_no_colorization THEN set_override(flag, FALSE) ELSE flag
        res == as_display_struct_int(self, during)
        after == IF forced_no_colorization THEN set_override(during, TRUE) ELSE during
    IN  [res |-> res, flag |-> after]

\* ---------------------------------------------------------------- simple_error_detail.rs
\* The provided methods of the trait SimpleErrorDetail.
SimpleErrorDetail_at(self, where_) == at(error_detail(SimpleError_new, self), where_)

SimpleErrorDetail_start_point_of_error(self, line, column) ==
    end_point_of_error(error_detail(SimpleError_new, self), line, column)

SimpleErrorDetail_end_point_of_error(self, line, column) ==
    end_point_of_error(error_detail(SimpleError_new, self), line, column)

SimpleErrorDetail_to_simple_error(self) == error_detail(SimpleError_new, self)

RECURSIVE leaf_errors(_)
RECURSIVE leaf_errors_from(_, _)
\* causes.iter().flat_map(|cause| cause.leaf_errors()), from cause i on
leaf_errors_from(causes, i) ==
    IF i > Len(causes) THEN <<>>
    ELSE leaf_errors(causes[i]) \o leaf_errors_from(causes, i + 1)

\* The error itself ahead of the leaves of its causes.
leaf_errors_with_self(self) == <<self>> \o leaf_errors_from(self.causes, 1)

leaf_errors(self) ==
    IF Len(self.causes) = 0 THEN <<self>> ELSE leaf_errors_from(self.causes, 1)

RECURSIVE revese_errors_int(_, _, _)
RECURSIVE revese_errors_int_from(_, _, _, _)
\* self.causes.iter().for_each(|cause| cause.revese_errors_int(result, current_stack)),
\* from cause i on
revese_errors_int_from(causes, i, result, current_stack) ==
    IF i > Len(causes) THEN result
    ELSE revese_errors_int_from(causes, i + 1,
                                revese_errors_int(causes[i], result, current_stack),
                                current_stack)

\* revese_errors_int storing, at a leaf, the stack without the leaf.
revese_errors_int_without_self(self, result, current_stack) ==
    IF Len(self.causes) = 0 THEN Append(result, current_stack)
    ELSE revese_errors_int_from(self.causes, 1, result, <<self>> \o current_stack)

\* result after the call; current_stack is popped back to what it was.  The
\* stack has its front first.
revese_errors_int(self, result, current_stack) ==
    IF Len(self.causes) = 0 THEN Append(result, <<self>> \o current_stack)
    ELSE revese_errors_int_from(self.causes, 1, result, <<self>> \o current_stack)

RECURSIVE reverse_error_loop(_, _)
\* The errors of the stack taken from its front and given the error so far as cause.
reverse_error_loop_from_front(errors_stack, reverse_error) ==
    IF Len(errors_stack) = 0 THEN reverse_error
    ELSE reverse_error_loop(SubSeq(errors_stack, 2, Len(errors_stack)),
                            with_cause(without_causes(errors_stack[1]), reverse_error))

\* while !errors_stack.is_empty() { reverse_error = errors_stack.remove(len - 1)
\*     .clone().without_causes().with_cause(reverse_error) }
reverse_error_loop(errors_stack, reverse_error) ==
    IF Len(errors_stack) = 0 THEN reverse_error
    ELSE reverse_error_loop(SubSeq(errors_stack, 1, Len(errors_stack) - 1),
                            with_cause(without_causes(errors_stack[Len(errors_stack)]),
                                       reverse_error))

\* The errors of inverted_error_tree; panicked when errors_stack.remove(len - 1)
\* is reached with an empty stack.
inverted_error_tree(self) ==
    LET Inverted(result) ==
            IF \E k \in 1..Len(result) : Len(result[k]) = 0
            THEN [panicked |-> TRUE, res |-> <<>>]
            ELSE [panicked |-> FALSE,
                  res |-> [k \in 1..Len(result) |->
                              reverse_error_loop(
                                  SubSeq(result[k], 1, Len(result[k]) - 1),
                                  without_causes(result[k][Len(result[k])]))]]
    IN  Inverted(revese_errors_int(self, <<>>, <<>>))

\* ---------------------------------------------------------------- inputs
\* The text the locations and markers are slices of, and where it lies in memory.
Input == Slice(100, <<" ", "a", "b", "\n", "c">>)

\* input[from..to], offsets counted from 0
InputSlice(from, to) == Slice(Input.ptr + from, SubSeq(Input.chars, from + 1, to))

\* An explanation alone (given untrimmed).
DetailA == SimpleErrorExplanation_explanation(SimpleErrorExplanation_new, <<" ", "a">>)

\* A solution alone.
DetailB == SimpleErrorExplanation_solution(SimpleErrorExplanation_new, <<"b">>)

\* An explanation of two lines.
DetailLines ==
    SimpleErrorExplanation_explanation(SimpleErrorExplanation_new, <<"x", "\n", "y">>)

\* An explanation with a marker on the "a" of the input and a style for the
\* whole location.
DetailMarked ==
    whole_input_colorization(
        colorization_marker(
            SimpleErrorExplanation_explanation(SimpleErrorExplanation_new, <<"e">>),
            InputSlice(1, 2),
            Colorization_style(Colorization_foreground(Colorization_new, "red"), "Bold")),
        Colorization_style(Colorization_foreground(Colorization_new, "blue"), "Dimmed"))

RECURSIVE with_styles(_, _)
\* colorization.style(styles[1]).style(styles[2])...
with_styles(colorization, styles) ==
    IF Len(styles) = 0 THEN colorization
    ELSE with_styles(Colorization_style(colorization, Head(styles)), Tail(styles))

\* Styles as the builder makes them: no colour or one, no attribute, some, or clear.
Colorizations ==
    LET Foregrounds == {Colorization_new} \cup
                       {Colorization_foreground(Colorization_new, color) : color \in {"red", "blue"}}
        Coloured == Foregrounds \cup
                    {Colorization_background(colorization, "white") : colorization \in Foregrounds}
    IN  {with_styles(colorization, styles) :
            colorization \in Coloured,
            styles \in {<<>>, <<"Clear">>, <<"Bold">>, <<"Dimmed">>, <<"Clear", "Bold">>}}

\* The styles joined three at a time: no colour or one of each kind, no attribute, one, or clear.
ColorizationsOfThree ==
    LET Foregrounds == {Colorization_new, Colorization_foreground(Colorization_new, "red")}
        Coloured == Foregrounds \cup
                    {Colorization_background(colorization, "white") : colorization \in Foregrounds}
    IN  {with_styles(colorization, styles) :
            colorization \in Coloured, styles \in {<<>>, <<"Clear">>, <<"Bold">>}}

\* The strings colorize is given to style: the input and its part input[1..3].
Bases == {Input, InputSlice(1, 3)}

\* The strings markers are put on: parts of the input that lie inside input[1..3],
\* across its start, across its end, around it and after it, an empty part, and
\* a string of another allocation.
MarkedSlices ==
    {InputSlice(0, 5), InputSlice(0, 2), InputSlice(1, 2), InputSlice(1, 3),
     InputSlice(2, 5), InputSlice(3, 5), InputSlice(2, 2), Slice(200, <<"a">>)}

MarkerStyles ==
    {Colorization_foreground(Colorization_new, "red"),
     Colorization_style(Colorization_foreground(Colorization_new, "blue"), "Bold"),
     Colorization_background(Colorization_new, "white"),
     Colorization_style(Colorization_new, "Clear")}

\* Vec<(&str, Colorization)> of up to MaxMarkers markers.
MarkerLists ==
    UNION {[1..n -> [str : MarkedSlices, colorization : MarkerStyles]] : n \in 0..MaxMarkers}

\* The whole-string styles given to colorize.
GeneralColorizations ==
    {None, Some(Colorization_style(Colorization_foreground(Colorization_new, "blue"), "Dimmed"))}

\* Up to MaxStrings strings, empty ones among them, none with a line feed.
StringLists == UNION {[1..n -> {<<>>, <<"a">>, <<"b", "c">>}] : n \in 0..MaxStrings}

\* The details of the errors of Spec, whose trees are large and fields few.
ShapeDetails == {DetailA}

\* The details that tell the errors of SpecLeaves apart.
LeafDetails == {DetailA, DetailB}

\* The details and locations of the errors of SpecFields, whose trees are small.
FieldDetails == {DetailA, DetailB, DetailLines, DetailMarked}

Locations == {InputSlice(0, 0), InputSlice(0, 1), InputSlice(0, 3), InputSlice(0, 5)}

\* ---------------------------------------------------------------- state
VARIABLES
    errors,           \* the SimpleError values under construction, innermost last
    SHOULD_COLORIZE,  \* colored::control::SHOULD_COLORIZE
    display_call,     \* the last render call: its colorize argument and whether
                      \* the flag said to colorize while it ran
    display_info,     \* the SimpleErrorDisplayInfo of the last as_display_struct
    display_string,   \* the text of the last as_display_string / Display
    earlier,          \* the render calls before the last one and their texts
    call              \* the last call of a function of the crate made on its
                      \* own: its name, its arguments and what it returned

vars == <<errors, SHOULD_COLORIZE, display_call, display_info, display_string, earlier, call>>

RECURSIVE node_count(_)
RECURSIVE node_count_from(_, _)
\* Number of nodes of the trees of a sequence of errors, from tree i on.
node_count_from(trees, i) ==
    IF i > Len(trees) THEN 0 ELSE node_count(trees[i]) + node_count_from(trees, i + 1)

\* Number of nodes of the causal tree of an error.
node_count(error) == 1 + node_count_from(error.causes, 1)

\* Nothing built, nothing rendered, nothing called; the flag is one of flags.
InitFrom(flags) ==
    /\ errors = <<>>
    /\ SHOULD_COLORIZE \in flags
    /\ display_call = None
    /\ display_info = None
    /\ display_string = None
    /\ earlier = <<>>
    /\ call = None

\* The flag as the environment gives it, no override set.
InitWith(envs) == InitFrom({ShouldColorize_new(env) : env \in envs})

\* A terminal: the flag says to colorize.
Init == InitWith({TRUE})

\* A terminal or not.
InitFields == InitWith(BOOLEAN)

\* Nothing rendered yet: errors are still being built.
NotRendered == is_none(display_info) /\ earlier = <<>>

\* An error is being built: nothing rendered yet.
Building == NotRendered /\ Len(errors) > 0

Last == errors[Len(errors)]

SetLast(error) == errors' = [errors EXCEPT ![Len(errors)] = error]

\* SimpleError::new()
New(limit) ==
    /\ NotRendered
    /\ node_count_from(errors, 1) < limit
    /\ errors' = Append(errors, SimpleError_new)
    /\ UNCHANGED <<SHOULD_COLORIZE, display_call, display_info, display_string, earlier, call>>

\* error.error_detail(detail)
ErrorDetail(detail) ==
    /\ Building
    /\ SetLast(error_detail(Last, detail))
    /\ UNCHANGED <<SHOULD_COLORIZE, display_call, display_info, display_string, earlier, call>>

\* error.at(location_str)
At(location_str) ==
    /\ Building
    /\ SetLast(at(Last, location_str))
    /\ UNCHANGED <<SHOULD_COLORIZE, display_call, display_info, display_string, earlier, call>>

\* error.start_point_of_error(line, column)
StartPointOfError(line, column) ==
    /\ Building
    /\ SetLast(start_point_of_error(Last, line, column))
    /\ UNCHANGED <<SHOULD_COLORIZE, display_call, display_info, display_string, earlier, call>>

\* error.end_point_of_error(line, column)
EndPointOfError(line, column) ==
    /\ Building
    /\ SetLast(end_point_of_error(Last, line, column))
    /\ UNCHANGED <<SHOULD_COLORIZE, display_call, display_info, display_string, earlier, call>>

\* parent.with_cause(cause): the last error becomes a cause of the one before it
WithCause ==
    /\ NotRendered
    /\ Len(errors) > 1
    /\ errors' = Append(SubSeq(errors, 1, Len(errors) - 2),
                        with_cause(errors[Len(errors) - 1], Last))
    /\ UNCHANGED <<SHOULD_COLORIZE, display_call, display_info, display_string, earlier, call>>

\* What a render call with this argument records of itself.
CallOf(colorize_) ==
    Some([colorize |-> colorize_, styled |-> colorize_ /\ should_colorize(SHOULD_COLORIZE)])

\* error.as_display_struct(colorize) on the finished error
AsDisplayStruct(colorize_) ==
    /\ is_none(display_info)
    /\ Len(errors) = 1
    /\ LET Returns(out) == /\ display_info' = Some(out.res)
                            /\ SHOULD_COLORIZE' = out.flag
       IN  Returns(as_display_struct(errors[1], colorize_, SHOULD_COLORIZE))
    /\ display_call' = CallOf(colorize_)
    /\ UNCHANGED <<errors, display_string, earlier, call>>

\* display_info.as_display_string()
AsDisplayString ==
    /\ is_some(display_info)
    /\ is_none(display_string)
    /\ display_string' = Some(as_display_string(unwrap(display_info)))
    /\ UNCHANGED <<errors, SHOULD_COLORIZE, display_call, display_info, earlier, call>>

\* format!("{error}"): Display for SimpleError
Display ==
    /\ is_none(display_info)
    /\ Len(errors) = 1
    /\ LET Returns(out) == /\ display_info' = Some(out.res)
                            /\ SHOULD_COLORIZE' = out.flag
                            /\ display_string' = Some(as_display_string(out.res))
       IN  Returns(as_display_struct(errors[1], TRUE, SHOULD_COLORIZE))
    /\ display_call' = CallOf(TRUE)
    /\ UNCHANGED <<errors, earlier, call>>

\* Trees of up to MaxNodes errors with a detail and an end point at most.
Next ==
    \/ New(MaxNodes)
    \/ \E detail \in ShapeDetails : ErrorDetail(detail)
    \/ EndPointOfError(3, 4)
    \/ WithCause
    \/ \E colorize_ \in BOOLEAN : AsDisplayStruct(colorize_)
    \/ AsDisplayString
    \/ Display

Spec == Init /\ [][Next]_vars

\* Trees of up to MaxFieldNodes errors: a root with any of its fields, causes
\* with a detail.
NextFields ==
    \/ New(MaxFieldNodes)
    \/ \E detail \in FieldDetails : ErrorDetail(detail)
    \/ Len(errors) = 1 /\ \E location_str \in Locations : At(location_str)
    \/ Len(errors) = 1 /\ StartPointOfError(1, 2)
    \/ Len(errors) = 1 /\ EndPointOfError(3, 4)
    \/ WithCause
    \/ \E colorize_ \in BOOLEAN : AsDisplayStruct(colorize_)
    \/ AsDisplayString
    \/ Display

SpecFields == InitFields /\ [][NextFields]_vars

\* error.leaf_errors() on the finished error
LeafErrors ==
    /\ Len(errors) = 1
    /\ is_none(call)
    /\ call' = Some([name |-> "leaf_errors", self |-> errors[1], res |-> leaf_errors(errors[1])])
    /\ UNCHANGED <<errors, SHOULD_COLORIZE, display_call, display_info, display_string, earlier>>

\* error.inverted_error_tree() on the finished error
InvertedErrorTree ==
    /\ Len(errors) = 1
    /\ is_none(call)
    /\ LET Returns(out) ==
               call' = Some([name |-> "inverted_error_tree", self |-> errors[1],
                             panicked |-> out.panicked, res |-> out.res])
       IN  Returns(inverted_error_tree(errors[1]))
    /\ UNCHANGED <<errors, SHOULD_COLORIZE, display_call, display_info, display_string, earlier>>

\* Trees of up to MaxLeafNodes errors, told apart by their details and the
\* start point of the first one; their leaves, their inverted trees and
\* their texts.
NextLeaves ==
    \/ is_none(call) /\ New(MaxLeafNodes)
    \/ is_none(call) /\ \E detail \in LeafDetails : ErrorDetail(detail)
    \/ is_none(call) /\ Len(errors) = 1 /\ StartPointOfError(1, 2)
    \/ is_none(call) /\ WithCause
    \/ LeafErrors
    \/ InvertedErrorTree
    \/ AsDisplayStruct(TRUE)
    \/ AsDisplayString

SpecLeaves == Init /\ [][NextLeaves]_vars

\* An error made from a detail by a provided method of SimpleErrorDetail.
MadeFromDetail(name, detail, arguments, error) ==
    /\ errors = <<>>
    /\ NotRendered
    /\ errors' = <<error>>
    /\ call' = Some([name |-> name, detail |-> detail, arguments |-> arguments])
    /\ UNCHANGED <<SHOULD_COLORIZE, display_call, display_info, display_string, earlier>>

\* detail.at(where_)
DetailAt(detail, where_) ==
    MadeFromDetail("SimpleErrorDetail::at", detail, <<where_>>,
                   SimpleErrorDetail_at(detail, where_))

\* detail.start_point_of_error(line, column)
DetailStartPointOfError(detail, line, column) ==
    MadeFromDetail("SimpleErrorDetail::start_point_of_error", detail, <<line, column>>,
                   SimpleErrorDetail_start_point_of_error(detail, line, column))

\* detail.end_point_of_error(line, column)
DetailEndPointOfError(detail, line, column) ==
    MadeFromDetail("SimpleErrorDetail::end_point_of_error", detail, <<line, column>>,
                   SimpleErrorDetail_end_point_of_error(detail, line, column))

\* detail.to_simple_error()
DetailToSimpleError(detail) ==
    MadeFromDetail("SimpleErrorDetail::to_simple_error", detail, <<>>,
                   SimpleErrorDetail_to_simple_error(detail))

\* The lines and columns given as points.
Points == {<<1, 2>>, <<3, 4>>}

\* An error made from a detail by the trait's methods, then rendered.
NextDetails ==
    \/ \E detail \in FieldDetails, where_ \in Locations : DetailAt(detail, where_)
    \/ \E detail \in FieldDetails, point \in Points :
           DetailStartPointOfError(detail, point[1], point[2])
    \/ \E detail \in FieldDetails, point \in Points :
           DetailEndPointOfError(detail, point[1], point[2])
    \/ \E detail \in FieldDetails : DetailToSimpleError(detail)
    \/ \E colorize_ \in BOOLEAN : AsDisplayStruct(colorize_)
    \/ AsDisplayString
    \/ Display

SpecDetails == Init /\ [][NextDetails]_vars

\* The caller keeps the text it got and is ready to render the same error again.
RenderAgain ==
    /\ is_some(display_string)
    /\ Len(earlier) + 1 < MaxRenders
    /\ earlier' = Append(earlier, [call |-> unwrap(display_call),
                                   string |-> unwrap(display_string)])
    /\ display_call' = None
    /\ display_info' = None
    /\ display_string' = None
    /\ UNCHANGED <<errors, SHOULD_COLORIZE, call>>

\* The flag in any state: what the environment gives, any override laid over it.
InitRenders ==
    InitFrom({set_override(ShouldColorize_new(env), override) : env, override \in BOOLEAN}
             \cup {ShouldColorize_new(env) : env \in BOOLEAN})

\* Trees of up to MaxFieldNodes errors, the root with a location, any error
\* with a detail that has markers, rendered up to MaxRenders times.
NextRenders ==
    \/ New(MaxFieldNodes)
    \/ ErrorDetail(DetailMarked)
    \/ Len(errors) = 1 /\ At(InputSlice(0, 3))
    \/ WithCause
    \/ \E colorize_ \in BOOLEAN : AsDisplayStruct(colorize_)
    \/ AsDisplayString
    \/ Display
    \/ RenderAgain

SpecRenders == InitRenders /\ [][NextRenders]_vars

\* pluralize(n, word_to_pluralize, on_empty)
Pluralize(n, word_to_pluralize, on_empty) ==
    /\ call' = Some([name |-> "pluralize", n |-> n, word_to_pluralize |-> word_to_pluralize,
                     on_empty |-> on_empty,
                     res |-> pluralize(n, word_to_pluralize, on_empty)])
    /\ UNCHANGED <<errors, SHOULD_COLORIZE, display_call, display_info, display_string, earlier>>

\* Colorization::join_const(this, other)
JoinConst(this, other) ==
    /\ call' = Some([name |-> "join_const", this |-> this, other |-> other,
                     res |-> join_const(this, other)])
    /\ UNCHANGED <<errors, SHOULD_COLORIZE, display_call, display_info, display_string, earlier>>

\* join_const over three styles, grouped from the left as the fold of colorize
\* groups them, and grouped from the right.
JoinConstOfThree(a, b, c) ==
    /\ call' = Some([name |-> "join_const of three", a |-> a, b |-> b, c |-> c,
                     from_left |-> join_const(join_const(a, b), c),
                     from_right |-> join_const(a, join_const(b, c))])
    /\ UNCHANGED <<errors, SHOULD_COLORIZE, display_call, display_info, display_string, earlier>>

\* colorize(input, input_modifiers, general_colorization), with the markers
\* it keeps and the segments it merges them into.
Colorize(input, input_modifiers, general_colorization) ==
    LET Returns(ranges_and_modifiers) ==
            [name |-> "colorize", input |-> input, input_modifiers |-> input_modifiers,
             general_colorization |-> general_colorization,
             ranges_and_modifiers |-> ranges_and_modifiers,
             segments |-> colorize_segments(ranges_and_modifiers,
                                            colorize_bounds(ranges_and_modifiers)),
             res |-> colorize(input, input_modifiers, general_colorization, SHOULD_COLORIZE)]
    IN  /\ call' = Some(Returns(colorize_ranges(input,
                                    with_general_colorization(input, input_modifiers,
                                                              general_colorization))))
        /\ UNCHANGED <<errors, SHOULD_COLORIZE, display_call, display_info, display_string, earlier>>

\* join_strings(separator, strings)
JoinStrings(separator, strings) ==
    /\ call' = Some([name |-> "join_strings", separator |-> separator, strings |-> strings,
                     res |-> join_strings(separator, strings)])
    /\ UNCHANGED <<errors, SHOULD_COLORIZE, display_call, display_info, display_string, earlier>>

\* One call of a function of the crate on arguments of its own.
NextCalls ==
    \/ is_none(call) /\ \E this, other \in Colorizations : JoinConst(this, other)
    \/ is_none(call) /\ \E a, b, c \in ColorizationsOfThree : JoinConstOfThree(a, b, c)
    \/ is_none(call) /\ \E n \in 0..MaxCount, word \in {STR_ExplainedCause, STR_UnexplainedCause},
                            on_empty \in {<<>>, <<"n", "o">>} : Pluralize(n, word, on_empty)
    \/ is_none(call) /\ \E input \in Bases, input_modifiers \in MarkerLists,
                            general_colorization \in GeneralColorizations :
                                Colorize(input, input_modifiers, general_colorization)
    \/ is_none(call) /\ \E separator \in {LF, LF \o LF}, strings \in StringLists :
                                JoinStrings(separator, strings)

SpecCalls == Init /\ [][NextCalls]_vars

\* ---------------------------------------------------------------- properties
\* The rendered error, its info and its text.
Root == errors[1]

Info == unwrap(display_info)

Text == unwrap(display_string)

\* The flag as the styling primitive saw it during the last render call.
FlagDuring == ShouldColorize_new(unwrap(display_call).styled)

\* The infos of the direct causes of an error, in the order they were added.
RenderedCauses(error) ==
    [k \in 1..Len(error.causes) |-> as_display_struct_int(error.causes[k], FlagDuring)]

\* The error carries no explanation, no solution, no location and no start point.
NoShownField(error) ==
    /\ is_none(error.where_)
    /\ is_none(error.start_point_of_error)
    /\ \/ is_none(error.error_detail)
       \/ /\ is_none(unwrap(error.error_detail).explanation)
          /\ is_none(unwrap(error.error_detail).solution)

RECURSIVE Bare(_)
\* Neither the error nor any error below it carries such a field.
Bare(error) ==
    /\ NoShownField(error)
    /\ \A k \in 1..Len(error.causes) : Bare(error.causes[k])

\* "N unexplained cause" / "M explained cause", with the s of the plural
Counted(n, word) ==
    IF n = 1 THEN <<"1", " ">> \o word ELSE to_string(n) \o <<" ">> \o word \o <<"s">>

\* some line of the text is this line
HasTheLine(text, line) == \E k \in 1..Len(lines(text)) : lines(text)[k] = line

\* s begins with prefix
StartsWith(s, prefix) == Len(s) >= Len(prefix) /\ SubSeq(s, 1, Len(prefix)) = prefix

\* the last lines of the text are these lines
EndsWithLines(text, expected) ==
    LET ls == lines(text)
    IN  /\ Len(ls) >= Len(expected)
        /\ SubSeq(ls, Len(ls) - Len(expected) + 1, Len(ls)) = expected

Spaces(n) == [k \in 1..n |-> " "]

C2_NonEmpty == is_some(display_string) => Len(Text) > 0

\* A root without any field or cause has been displayed.
C2_Witness ==
    /\ is_some(display_string)
    /\ Root = SimpleError_new

\* C3 as stated: with N >= 1 unexplained and M >= 1 explained causes the Has
\* line names the unexplained causes first.
C3_HasLine ==
    (/\ is_some(display_string)
     /\ Info.unexplained_causes >= 1
     /\ Len(Info.explained_causes) >= 1) =>
        HasTheLine(Text, STR_Has \o STR_ColonSpace
                         \o Counted(Info.unexplained_causes, STR_UnexplainedCause)
                         \o STR_And
                         \o Counted(Len(Info.explained_causes), STR_ExplainedCause)
                         \o <<".">>)

\* The lines of the cause field of a node with exactly one explained cause:
\* the label, then the lines of the cause, each behind the indent.
InlineCauseLines(label, indent, info) ==
    LET nested == lines(unwrap(as_display_string_int(info.explained_causes[1], TRUE)))
    IN  <<label \o STR_ColonSpace>> \o [k \in 1..Len(nested) |-> Spaces(indent) \o nested[k]]

\* The text ends with these lines, a label and the lines of a cause, and the
\* line behind the label is not the header of a numbered cause.
EndsWithInlineCause(text_lines, expected) ==
    /\ Len(text_lines) >= Len(expected)
    /\ SubSeq(text_lines, Len(text_lines) - Len(expected) + 1, Len(text_lines)) = expected
    /\ ~StartsWith(text_lines[Len(text_lines) - Len(expected) + 2], Spaces(2) \o STR_CauseNo)

RECURSIVE TallyHolds(_, _)
\* At this node and at every node below it in the info, the two tallies add up
\* to the number of direct causes of the error the node was rendered from.
TallyHolds(error, info) ==
    /\ info.unexplained_causes + Len(info.explained_causes) = Len(error.causes)
    /\ \A j \in 1..Len(info.explained_causes) :
           \E k \in 1..Len(error.causes) :
               /\ RenderedCauses(error)[k] = info.explained_causes[j]
               /\ TallyHolds(error.causes[k], info.explained_causes[j])

\* C5: at every node of the rendered tree, unexplained_cause_count plus the
\* length of explained_causes is the number of direct causes of the error.
C5_Tally == is_some(display_info) => TallyHolds(Root, Info)

\* A root with two unexplained causes, one of them with a cause of its own,
\* and one explained cause has been rendered.
C5_Witness ==
    /\ is_some(display_info)
    /\ Info.unexplained_causes = 2
    /\ Len(Info.explained_causes) = 1
    /\ node_count(Root) = 4

\* at, reason, solution or start is present, or some cause is explained.
Shown(info) ==
    \/ is_some(info.at)
    \/ is_some(info.reason)
    \/ is_some(info.solution)
    \/ is_some(info.on_line_and_column)
    \/ Len(info.explained_causes) > 0

RECURSIVE PlacedByShown(_, _)
\* At this node and below: the explained causes are the causes that show
\* something, the tally counts the others, and a bare cause is only tallied.
PlacedByShown(error, info) ==
    LET rendered == RenderedCauses(error)
        Listed(cause) == \E j \in 1..Len(info.explained_causes) : info.explained_causes[j] = cause
    IN  /\ \A k \in 1..Len(rendered) : Listed(rendered[k]) <=> Shown(rendered[k])
        /\ \A k \in 1..Len(rendered) : Bare(error.causes[k]) => ~Listed(rendered[k])
        /\ info.unexplained_causes = Cardinality({k \in 1..Len(rendered) : ~Shown(rendered[k])})
        /\ \A j \in 1..Len(info.explained_causes) :
               /\ Shown(info.explained_causes[j])
               /\ \E k \in 1..Len(rendered) :
                      /\ rendered[k] = info.explained_causes[j]
                      /\ PlacedByShown(error.causes[k], info.explained_causes[j])

\* C6: a cause is among explained_causes exactly when its info has at, reason,
\* solution or start, or an explained cause of its own; an end point alone does
\* not count, and every info reachable through explained_causes is explained.
C6_Explained == is_some(display_info) => PlacedByShown(Root, Info)

\* A cause with an end point and nothing else is tallied as unexplained beside
\* an explained cause that is explained only through its own cause.
C6_Witness ==
    /\ is_some(display_info)
    /\ \E k \in 1..Len(Root.causes) :
           /\ is_some(Root.causes[k].end_point_of_error)
           /\ Bare(Root.causes[k])
    /\ Info.unexplained_causes = 1
    /\ \E j \in 1..Len(Info.explained_causes) :
           /\ is_none(Info.explained_causes[j].reason)
           /\ Len(Info.explained_causes[j].explained_causes) = 1

\* The displays among these whose complexity is c, in their order.
OfComplexity(displays, c) ==
    LET HasIt(display) == complexity(display) = c
    IN  SelectSeq(displays, HasIt)

RECURSIVE SortedStable(_, _)
\* At this node and below: explained_causes never steps down in complexity,
\* and the causes of any one complexity are the shown causes of that
\* complexity in the order they were added to the error.
SortedStable(error, info) ==
    LET rendered == RenderedCauses(error)
        added == SelectSeq(rendered, Shown)
        listed == info.explained_causes
    IN  /\ \A j \in 1..(Len(listed) - 1) : complexity(listed[j]) <= complexity(listed[j + 1])
        /\ \A c \in {complexity(rendered[k]) : k \in 1..Len(rendered)}
                    \cup {complexity(listed[j]) : j \in 1..Len(listed)} :
               OfComplexity(listed, c) = OfComplexity(added, c)
        /\ \A k \in 1..Len(rendered) : SortedStable(error.causes[k], rendered[k])

\* C7: at every node of the rendered tree explained_causes is ordered by
\* non-decreasing complexity, causes of equal complexity in the order in which
\* they were added to the error.
C7_SortedStable == is_some(display_info) => SortedStable(Root, Info)

\* A cause with an explained cause of its own was added before a leaf cause and
\* is listed after it.
C7_Witness ==
    /\ is_some(display_info)
    /\ Len(Root.causes) = 2
    /\ Len(Root.causes[1].causes) = 1
    /\ Len(Info.explained_causes) = 2
    /\ Info.explained_causes[1] = RenderedCauses(Root)[2]
    /\ Info.explained_causes[2] = RenderedCauses(Root)[1]
    /\ complexity(Info.explained_causes[1]) < complexity(Info.explained_causes[2])

\* The error shows something of its own or through a cause: a location that is
\* not empty, an explanation, a solution, a start point, or a cause that shows.
RECURSIVE ErrorShown(_)
ErrorShown(error) ==
    \/ is_some(error.where_) /\ Len(unwrap(error.where_).chars) > 0
    \/ /\ is_some(error.error_detail)
       /\ \/ is_some(unwrap(error.error_detail).explanation)
          \/ is_some(unwrap(error.error_detail).solution)
    \/ is_some(error.start_point_of_error)
    \/ \E k \in 1..Len(error.causes) : ErrorShown(error.causes[k])

RECURSIVE kept_count(_)
RECURSIVE kept_count_from(_, _)
\* The errors of these trees, from tree i on, that are kept in the rendered
\* tree: an error that shows nothing is only tallied, with all below it.
kept_count_from(trees, i) ==
    IF i > Len(trees) THEN 0
    ELSE (IF ErrorShown(trees[i]) THEN kept_count(trees[i]) ELSE 0)
         + kept_count_from(trees, i + 1)

kept_count(error) == 1 + kept_count_from(error.causes, 1)

RECURSIVE ComplexityIsKeptCount(_)
\* For every cause below this error, the complexity of its info is the number
\* of errors of its subtree that are kept in the rendered tree.
ComplexityIsKeptCount(error) ==
    \A k \in 1..Len(error.causes) :
        /\ complexity(RenderedCauses(error)[k]) = kept_count(error.causes[k])
        /\ ComplexityIsKeptCount(error.causes[k])

\* C8 as stated: the complexity of an explained cause of the root is the number
\* of errors of its causal subtree, so its place follows the size of its subtree.
C8_Original ==
    is_some(display_info) =>
        /\ \A k \in 1..Len(Root.causes) :
               Shown(RenderedCauses(Root)[k]) =>
                   complexity(RenderedCauses(Root)[k]) = node_count(Root.causes[k])
        /\ \A j, k \in 1..Len(Root.causes) :
               (/\ Shown(RenderedCauses(Root)[j])
                /\ Shown(RenderedCauses(Root)[k])
                /\ node_count(Root.causes[j]) > node_count(Root.causes[k])) =>
                   \E a, b \in 1..Len(Info.explained_causes) :
                       /\ a < b
                       /\ Info.explained_causes[a] = RenderedCauses(Root)[k]
                       /\ Info.explained_causes[b] = RenderedCauses(Root)[j]

\* C8, amended: the complexity of a cause counts the cause and those of its
\* descendants that are kept as explained causes in the rendered tree; a
\* descendant that shows nothing, and all below it, is not counted.
C8_KeptCount == is_some(display_info) => ComplexityIsKeptCount(Root)

\* A cause with an explained cause and an unexplained cause of its own has been
\* rendered: three errors in its subtree, complexity 2.
C8_Witness ==
    /\ is_some(display_info)
    /\ Len(Root.causes) = 1
    /\ node_count(Root.causes[1]) = 3
    /\ Len(Info.explained_causes) = 1
    /\ Info.explained_causes[1].unexplained_causes = 1
    /\ complexity(Info.explained_causes[1]) = 2

RECURSIVE IndentAfterLineFeeds(_, _)
\* The text with n spaces put behind each of its line feeds.
IndentAfterLineFeeds(text, n) ==
    IF Len(text) = 0 THEN <<>>
    ELSE IF Head(text) = "\n" THEN LF \o Spaces(n) \o IndentAfterLineFeeds(Tail(text), n)
    ELSE <<Head(text)>> \o IndentAfterLineFeeds(Tail(text), n)

\* all of the text is whitespace
Blank(text) == \A k \in 1..Len(text) : is_whitespace(text[k])

\* text with the whitespace before its first and after its last other character removed
Trimmed(text) ==
    IF Blank(text) THEN <<>>
    ELSE LET first == CHOOSE k \in 1..Len(text) :
                          ~is_whitespace(text[k]) /\ Blank(SubSeq(text, 1, k - 1))
             last == CHOOSE k \in 1..Len(text) :
                         ~is_whitespace(text[k]) /\ Blank(SubSeq(text, k + 1, Len(text)))
         IN  SubSeq(text, first, last)

\* One error with a location that is not blank and an explanation, without
\* solution, points or causes, displayed with colorization disabled.
LocatedAndExplained ==
    /\ is_some(display_string)
    /\ ~unwrap(display_call).styled
    /\ Len(Root.causes) = 0
    /\ is_some(Root.where_)
    /\ ~Blank(unwrap(Root.where_).chars)
    /\ is_some(Root.error_detail)
    /\ is_some(unwrap(Root.error_detail).explanation)
    /\ is_none(unwrap(Root.error_detail).solution)
    /\ is_none(Root.start_point_of_error)
    /\ is_none(Root.end_point_of_error)

\* C9 as stated: such an error renders as exactly "At: <L trimmed>", a line
\* feed and "Error: <E>".
C9_Original ==
    LocatedAndExplained =>
        Text = STR_At \o STR_ColonSpace \o Trimmed(unwrap(Root.where_).chars) \o LF
               \o STR_Error \o STR_ColonSpace \o unwrap(unwrap(Root.error_detail).explanation)

\* C9, amended: such an error renders as "At: <L trimmed>", a line feed and
\* "Error: <E>", where the lines of L after its first are indented by 4 spaces
\* and those of E by 7; markers do not change this text.
C9_UnstyledText ==
    LocatedAndExplained =>
        Text = STR_At \o STR_ColonSpace
               \o IndentAfterLineFeeds(Trimmed(unwrap(Root.where_).chars), 4) \o LF
               \o STR_Error \o STR_ColonSpace
               \o IndentAfterLineFeeds(unwrap(unwrap(Root.error_detail).explanation), 7)

\* An error with a location of two lines and an explanation with markers has
\* been displayed with colorization disabled.
C9_Witness ==
    /\ LocatedAndExplained
    /\ Root.where_ = Some(InputSlice(0, 5))
    /\ Root.error_detail = Some(DetailMarked)

RECURSIVE NumberedCauseLines(_, _, _)
\* The lines of the numbered causes of a node from cause K on: before each but
\* the first a line of the indent alone, then the header of ordinal K, then
\* the lines of the cause, all behind the indent.
NumberedCauseLines(info, K, indent) ==
    IF K > Len(info.explained_causes) THEN <<>>
    ELSE LET nested == lines(unwrap(as_display_string_int(info.explained_causes[K], TRUE)))
         IN  (IF K > 1 THEN <<Spaces(indent)>> ELSE <<>>)
             \o <<Spaces(indent) \o STR_CauseNo \o to_string(K) \o STR_SpaceDash>>
             \o [k \in 1..Len(nested) |-> Spaces(indent) \o nested[k]]
             \o NumberedCauseLines(info, K + 1, indent)

RECURSIVE NumberedBelow(_)
\* At this cause and below, a node with two or more explained causes ends its
\* text with the label "- Causes" and the numbered causes, behind 4 spaces.
NumberedBelow(info) ==
    /\ Len(info.explained_causes) >= 2 =>
           EndsWithLines(unwrap(as_display_string_int(info, TRUE)),
                         <<STR_DashSpace \o STR_Causes \o STR_ColonSpace>>
                         \o NumberedCauseLines(info, 1, 4))
    /\ \A j \in 1..Len(info.explained_causes) : NumberedBelow(info.explained_causes[j])

\* C10: a node with two or more explained causes renders them under the label
\* "Causes" (behind 2 spaces at the root) in the order of explained_causes, the K-th behind the header
\* "- Cause n^o K -" with K = 1..M, and a whitespace-only line between
\* consecutive causes.
C10_Numbered ==
    is_some(display_string) =>
        /\ Len(Info.explained_causes) >= 2 =>
               EndsWithLines(Text, <<STR_Causes \o STR_ColonSpace>>
                                   \o NumberedCauseLines(Info, 1, 2))
        /\ \A j \in 1..Len(Info.explained_causes) : NumberedBelow(Info.explained_causes[j])

\* A root with three explained causes has been displayed.
C10_Witness ==
    /\ is_some(display_string)
    /\ Len(Info.explained_causes) = 3

\* The lines of a text that begin with the label of the Has field.
HasLinesOf(text, label) ==
    LET IsHas(line) == StartsWith(line, label)
    IN  SelectSeq(lines(text), IsHas)

\* The Has field of a node in its text: there if and only if the node has a
\* cause and not just one explained cause; with one tally at 0 it is the label,
\* the phrase of the other tally and a period.
HasFieldHolds(info, has_lines, label) ==
    /\ Len(has_lines) > 0 <=>
           /\ info.unexplained_causes + Len(info.explained_causes) >= 1
           /\ ~(Len(info.explained_causes) = 1 /\ info.unexplained_causes = 0)
    /\ Len(has_lines) <= 1
    /\ (info.unexplained_causes >= 1 /\ Len(info.explained_causes) = 0) =>
           has_lines = <<label \o Counted(info.unexplained_causes, STR_UnexplainedCause) \o <<".">> >>
    /\ (info.unexplained_causes = 0 /\ Len(info.explained_causes) >= 2) =>
           has_lines = <<label \o Counted(Len(info.explained_causes), STR_ExplainedCause) \o <<".">> >>

RECURSIVE HasFieldBelow(_)
\* The same of a cause and of the explained causes below it, each in its own text.
HasFieldBelow(info) ==
    /\ HasFieldHolds(info, HasLinesOf(unwrap(as_display_string_int(info, TRUE)),
                                      STR_DashSpace \o STR_Has \o STR_ColonSpace),
                     STR_DashSpace \o STR_Has \o STR_ColonSpace)
    /\ \A j \in 1..Len(info.explained_causes) : HasFieldBelow(info.explained_causes[j])

\* C11: the Has line of a rendered node is present if and only if the node has
\* at least one cause and not exactly one explained and no unexplained cause;
\* when only one of the two counts is not 0 the line is "Has: ", the pluralized
\* phrase of that count and a period.
C11_HasPresence ==
    is_some(display_string) =>
        /\ HasFieldHolds(Info, HasLinesOf(Text, STR_Has \o STR_ColonSpace), STR_Has \o STR_ColonSpace)
        /\ \A j \in 1..Len(Info.explained_causes) : HasFieldBelow(Info.explained_causes[j])

\* A root with two unexplained causes and no explained one, one with cause of
\* its own, has been displayed.
C11_Witness ==
    /\ is_some(display_string)
    /\ Info.unexplained_causes = 2
    /\ Len(Info.explained_causes) = 0
    /\ node_count(Root) = 4

\* The last call made is a call of this function.
Called(name) == is_some(call) /\ unwrap(call).name = name

RECURSIVE DecimalValue(_)
\* The number a sequence of decimal digits writes.
DecimalValue(digits) ==
    IF Len(digits) = 0 THEN 0
    ELSE 10 * DecimalValue(SubSeq(digits, 1, Len(digits) - 1))
         + (CHOOSE d \in 0..9 :
                <<"0", "1", "2", "3", "4", "5", "6", "7", "8", "9">>[d + 1] = digits[Len(digits)])

\* digits is the decimal writing of n: digits only, no leading 0, of value n.
WritesNumber(digits, n) ==
    /\ Len(digits) > 0
    /\ \A k \in 1..Len(digits) : digits[k] \in {"0", "1", "2", "3", "4", "5", "6", "7", "8", "9"}
    /\ Len(digits) > 1 => digits[1] # "0"
    /\ DecimalValue(digits) = n

\* res is "<n> <word>s"
IsPlural(res, n, word) ==
    /\ Len(res) > Len(word) + 2
    /\ SubSeq(res, Len(res) - Len(word) - 1, Len(res)) = <<" ">> \o word \o <<"s">>
    /\ WritesNumber(SubSeq(res, 1, Len(res) - Len(word) - 2), n)

\* C12: pluralize(n, word), called with "" for the empty case as the crate
\* calls it, returns the empty string for n = 0, "1 <word>" for n = 1 and
\* "<n> <word>s" for every n > 1.
C12_Pluralize ==
    (Called("pluralize") /\ unwrap(call).on_empty = <<>>) =>
        LET n == unwrap(call).n
            word == unwrap(call).word_to_pluralize
            res == unwrap(call).res
        IN  /\ n = 0 => res = <<>>
            /\ n = 1 => res = <<"1", " ">> \o word
            /\ n > 1 => IsPlural(res, n, word)

\* pluralize has been called on a number of two digits.
C12_Witness ==
    /\ Called("pluralize")
    /\ unwrap(call).on_empty = <<>>
    /\ unwrap(call).n = 10

\* The render call before the last one and its text.
Before == earlier[Len(earlier)]

\* The same error has been rendered and displayed twice in a row with
\* colorization disabled.
TwiceDisabled ==
    /\ is_some(display_string)
    /\ Len(earlier) > 0
    /\ ~Before.call.colorize
    /\ ~unwrap(display_call).colorize

\* C13: whatever the flag was at first, as_display_struct(false) and
\* as_display_string twice in a row on the same error give the same text.
C13_SameTextTwice == TwiceDisabled => Text = Before.string

\* A located error with markers has been rendered twice with colorization
\* disabled, the flag saying to colorize before the first call.
C13_Witness ==
    /\ TwiceDisabled
    /\ Before.call.colorize = FALSE
    /\ is_some(Root.where_)
    /\ Root.error_detail = Some(DetailMarked)
    /\ SHOULD_COLORIZE = set_override(ShouldColorize_new(TRUE), TRUE)
    /\ Len(Root.causes) = 1

\* C14 as stated: a call of as_display_struct leaves the flag as it found it,
\* the override setting included.
C14_FlagRestored ==
    [][(is_none(display_info) /\ is_some(display_info')) =>
           SHOULD_COLORIZE' = SHOULD_COLORIZE]_vars

\* The style carries the clear attribute.
Clears(colorization) ==
    is_some(colorization.style_const) /\ "Clear" \in unwrap(colorization.style_const)

\* C15 as stated: when the overlay carries the clear attribute, the merge of
\* any base with it is exactly the overlay.
C15_ClearReplaces ==
    (Called("join_const") /\ Clears(unwrap(call).other)) =>
        unwrap(call).res = unwrap(call).other

\* C16 as stated: the style merge is associative.
C16_Associative ==
    Called("join_const of three") => unwrap(call).from_left = unwrap(call).from_right

\* ---------------------------------------------------------------- colorize
\* The markers of a call of colorize in the order they are applied: the
\* whole-string style on the input itself first, then the listed ones.
GivenMarkers(c) ==
    (IF c.general_colorization = None THEN <<>>
     ELSE <<[str |-> c.input, colorization |-> c.general_colorization[1]]>>)
    \o c.input_modifiers

StartOf(str) == str.ptr

EndOf(str) == str.ptr + Len(str.chars)

Larger(a, b) == IF a > b THEN a ELSE b

Smaller(a, b) == IF a < b THEN a ELSE b

\* The marker lies within the bytes of the input and is not empty.
FullyContained(marker, input) ==
    /\ StartOf(input) <= StartOf(marker.str)
    /\ EndOf(marker.str) <= EndOf(input)
    /\ StartOf(marker.str) < EndOf(marker.str)

\* The marker and the input have a byte in common.
Overlaps(marker, input) ==
    Larger(StartOf(marker.str), StartOf(input)) < Smaller(EndOf(marker.str), EndOf(input))

\* The part of the marker inside the input, as offsets into the input.
Clipped(marker, input) ==
    <<Larger(StartOf(marker.str), StartOf(input)) - StartOf(input),
      Smaller(EndOf(marker.str), EndOf(input)) - StartOf(input),
      marker.colorization>>

\* The markers of the call that satisfy Keep, clipped to the input, in order.
KeptMarkers(c, Keep(_, _)) ==
    LET Kept(marker) == Keep(marker, c.input)
        ClippedAll(markers) == [k \in 1..Len(markers) |-> Clipped(markers[k], c.input)]
    IN  ClippedAll(SelectSeq(GivenMarkers(c), Kept))

OffsetsIn(segment) == segment[1]..(segment[2] - 1)

\* The offsets of all the segments.
Covered(segments) == UNION {OffsetsIn(segments[k]) : k \in 1..Len(segments)}

\* No offset lies in two segments.
NonOverlapping(segments) ==
    \A j, k \in 1..Len(segments) :
        j # k => OffsetsIn(segments[j]) \cap OffsetsIn(segments[k]) = {}

\* The offsets of the input from the least start to the greatest end of the
\* kept markers.
SpanOf(markers, input) ==
    {offset \in 0..(Len(input.chars) - 1) :
        \E j, k \in 1..Len(markers) : markers[j][1] <= offset /\ offset < markers[k][2]}

\* The text without the escape sequences the styling puts around segments.
Unstyled(text) ==
    LET IsText(char) == Len(char) = 1 IN SelectSeq(text, IsText)

\* C18 as stated: the segments do not overlap and their union is the whole
\* input, from offset 0 to its length.
C18_Original ==
    Called("colorize") =>
        /\ NonOverlapping(unwrap(call).segments)
        /\ Covered(unwrap(call).segments) = 0..(Len(unwrap(call).input.chars) - 1)

\* C18: the segments do not overlap, none is empty, and their union is the
\* part of the input from the least start to the greatest end of the kept
\* markers, gaps between markers included: the whole input when there is a
\* whole-string style, nothing when no marker is kept.  The text outside the
\* segments reaches the result as it is.
C18_CoversMarkedSpan ==
    Called("colorize") =>
        /\ NonOverlapping(unwrap(call).segments)
        /\ \A k \in 1..Len(unwrap(call).segments) : OffsetsIn(unwrap(call).segments[k]) # {}
        /\ Covered(unwrap(call).segments) = SpanOf(KeptMarkers(unwrap(call), Overlaps), unwrap(call).input)
        /\ unwrap(call).general_colorization # None =>
               Covered(unwrap(call).segments) = 0..(Len(unwrap(call).input.chars) - 1)
        /\ Unstyled(unwrap(call).res) = unwrap(call).input.chars

\* colorize of the input with markers on input[1..2] and input[3..5] and no
\* whole-string style: three segments, the gap between the markers one of
\* them and unstyled, offset 0 in none.
C18_Witness ==
    /\ Called("colorize")
    /\ unwrap(call).input = Input
    /\ unwrap(call).general_colorization = None
    /\ Len(unwrap(call).segments) = 3
    /\ unwrap(call).segments[1][1] = 1
    /\ unwrap(call).segments[2] = <<2, 3, Colorization_new>>
    /\ unwrap(call).segments[3][2] = 5
    /\ 0 \notin Covered(unwrap(call).segments)

RECURSIVE FoldJoin(_)
\* The styles joined from the left, from the empty style on.
FoldJoin(styles) ==
    IF Len(styles) = 0 THEN Colorization_new
    ELSE join_const(FoldJoin(SubSeq(styles, 1, Len(styles) - 1)), styles[Len(styles)])

\* The styles of the markers whose span contains the segment, in order.
StylesOver(segment, markers) ==
    LET Contains(marker) == marker[1] <= segment[1] /\ segment[2] <= marker[2]
        StylesOf(over) == [k \in 1..Len(over) |-> over[k][3]]
    IN  StylesOf(SelectSeq(markers, Contains))

\* The segment's style is the fold of the styles over it; the last of them
\* gives the foreground and the background it sets; two styles over it are
\* joined as join(A, B).
MergedFrom(segment, styles) ==
    /\ segment[3] = FoldJoin(styles)
    /\ Len(styles) = 2 => segment[3] = join_const(styles[1], styles[2])
    /\ (Len(styles) > 0 /\ styles[Len(styles)].foreground # None) =>
           segment[3].foreground = styles[Len(styles)].foreground
    /\ (Len(styles) > 0 /\ styles[Len(styles)].background # None) =>
           segment[3].background = styles[Len(styles)].background

\* C19: the style of every segment is the left-to-right fold of join_const
\* over the markers whose span contains the segment, in their listed order
\* with the whole-string style first.
C19_FoldOfJoin ==
    Called("colorize") =>
        \A k \in 1..Len(unwrap(call).segments) :
            MergedFrom(unwrap(call).segments[k],
                       StylesOver(unwrap(call).segments[k],
                                  KeptMarkers(unwrap(call), Overlaps)))

\* colorize of the input with the whole-string style (blue, dimmed) and a red
\* marker on input[1..2]: the segment of the marker is red and dimmed.
C19_Witness ==
    /\ Called("colorize")
    /\ unwrap(call).input = Input
    /\ unwrap(call).general_colorization # None
    /\ Len(unwrap(call).input_modifiers) = 1
    /\ unwrap(call).input_modifiers[1] =
           [str |-> InputSlice(1, 2),
            colorization |-> Colorization_foreground(Colorization_new, "red")]
    /\ unwrap(call).segments[2] =
           <<1, 2, [foreground |-> Some("red"), background |-> None,
                    style_const |-> Some({"Dimmed"})]>>

\* ---------------------------------------------------------------- leaf_errors
RECURSIVE PathsOf(_)
\* The errors of a tree, each as the positions of the causes that lead to it.
PathsOf(error) ==
    {<<>>} \cup UNION {{<<k>> \o path : path \in PathsOf(error.causes[k])} :
                          k \in 1..Len(error.causes)}

RECURSIVE ErrorAt(_, _)
ErrorAt(error, path) ==
    IF Len(path) = 0 THEN error ELSE ErrorAt(error.causes[path[1]], SubSeq(path, 2, Len(path)))

\* The errors of the tree that have no causes.
LeafPathsOf(error) == {path \in PathsOf(error) : Len(ErrorAt(error, path).causes) = 0}

\* p is met before q going depth first, causes from left to right.
MetBefore(p, q) ==
    \E k \in 1..Smaller(Len(p), Len(q)) :
        p[k] < q[k] /\ SubSeq(p, 1, k - 1) = SubSeq(q, 1, k - 1)

\* The rank of a leaf among the leaves, depth first and left to right, from 1.
RankOf(path, error) == 1 + Cardinality({q \in LeafPathsOf(error) : MetBefore(q, path)})

\* C20: leaf_errors returns the errors of the tree that have no causes, each
\* once, depth first and left to right; an error without causes returns
\* itself alone.
C20_LeafErrors ==
    Called("leaf_errors") =>
        /\ Len(unwrap(call).res) = Cardinality(LeafPathsOf(unwrap(call).self))
        /\ \A path \in LeafPathsOf(unwrap(call).self) :
               unwrap(call).res[RankOf(path, unwrap(call).self)] =
                   ErrorAt(unwrap(call).self, path)
        /\ Len(unwrap(call).self.causes) = 0 => unwrap(call).res = <<unwrap(call).self>>

\* leaf_errors on A with the causes B and C, C with the cause D: B and D, the
\* two told apart by their details.
C20_Witness ==
    /\ Called("leaf_errors")
    /\ LeafPathsOf(unwrap(call).self) = {<<1>>, <<2, 1>>}
    /\ Len(unwrap(call).res) = 2
    /\ unwrap(call).res[1] = unwrap(call).self.causes[1]
    /\ unwrap(call).res[2] = unwrap(call).self.causes[2].causes[1]
    /\ unwrap(call).res[1] # unwrap(call).res[2]

\* ---------------------------------------------------------------- inverted_error_tree
RECURSIVE ChainUp(_, _)
\* The error at the path with, as its only cause, its parent likewise, up to
\* the root, which has none.
ChainUp(error, path) ==
    [ErrorAt(error, path) EXCEPT
        !.causes = IF Len(path) = 0 THEN <<>>
                   ELSE <<ChainUp(error, SubSeq(path, 1, Len(path) - 1))>>]

\* C21: inverted_error_tree returns one error for each leaf, in the order of
\* leaf_errors: the leaf with its own fields and, as causes, the single chain
\* of its ancestors from its parent up to the root, each with its own fields.
C21_InvertedChains ==
    Called("inverted_error_tree") =>
        /\ Len(unwrap(call).res) = Cardinality(LeafPathsOf(unwrap(call).self))
        /\ Len(unwrap(call).res) = Len(leaf_errors(unwrap(call).self))
        /\ \A path \in LeafPathsOf(unwrap(call).self) :
               unwrap(call).res[RankOf(path, unwrap(call).self)] =
                   ChainUp(unwrap(call).self, path)
        /\ \A k \in 1..Len(unwrap(call).res) :
               without_causes(unwrap(call).res[k]) = leaf_errors(unwrap(call).self)[k]

\* inverted_error_tree on A with a start point and the causes B and C, C with
\* the cause D: D comes second, with C as its cause and A as the cause of C.
C21_Witness ==
    /\ Called("inverted_error_tree")
    /\ LeafPathsOf(unwrap(call).self) = {<<1>>, <<2, 1>>}
    /\ unwrap(call).self.start_point_of_error # None
    /\ Len(unwrap(call).res) = 2
    /\ Len(unwrap(call).res[2].causes) = 1
    /\ unwrap(call).res[2].causes[1].error_detail = unwrap(call).self.causes[2].error_detail
    /\ unwrap(call).res[2].causes[1].causes = <<without_causes(unwrap(call).self)>>
    /\ unwrap(call).self.causes[2].error_detail # unwrap(call).self.error_detail

\* ---------------------------------------------------------------- SimpleErrorDetail
\* "Position: On line <line> and column <column>"
PositionLine(line, column) ==
    STR_Position \o STR_ColonSpace \o STR_OnLine \o to_string(line)
    \o STR_AndColumn \o to_string(column)

\* C22 as stated: the error detail.start_point_of_error(line, column) makes
\* has (line, column) as its start point, and its text shows
\* "Position: On line <line> and column <column>".
C22_StartPoint ==
    Called("SimpleErrorDetail::start_point_of_error") =>
        /\ Root.start_point_of_error = Some(unwrap(call).arguments)
        /\ is_some(display_string) =>
               HasTheLine(Text, PositionLine(unwrap(call).arguments[1],
                                             unwrap(call).arguments[2]))

\* ---------------------------------------------------------------- at
\* The error has a location that is not blank.
Located(error) == is_some(error.where_) /\ ~Blank(unwrap(error.where_).chars)

\* C23 as stated: the at of the rendered error is present only if its location
\* is present and not blank; an error whose location is blank, with no other
\* field and no explained cause, is not explained (its parent counts it as
\* unexplained); when present and not styled, at is the trimmed location.
C23_AtOnlyWhenNotBlank ==
    is_some(display_info) =>
        /\ is_some(Info.at) => Located(Root)
        /\ (is_some(Root.where_) /\ ~Located(Root) /\ Bare([Root EXCEPT !.where_ = None])) =>
               ~is_explained(Info)
        /\ (is_some(Info.at) /\ ~unwrap(display_call).styled) =>
               Info.at = Some(Trimmed(unwrap(Root.where_).chars))

\* ---------------------------------------------------------------- panics
RECURSIVE EveryCauseHasText(_)
\* The unwrap of the text of each explained cause, at every depth, finds a text.
EveryCauseHasText(info) ==
    \A k \in 1..Len(info.explained_causes) :
        /\ is_some(as_display_string_int(info.explained_causes[k], TRUE))
        /\ EveryCauseHasText(info.explained_causes[k])

\* None of the stacks inverted_error_tree takes its errors from is empty.
NoneEmpty(stacks) == \A k \in 1..Len(stacks) : Len(stacks[k]) >= 1

\* C24: rendering and inverted_error_tree complete without a panic: when
\* as_display_string is called on a rendered tree every explained cause
\* renders to a text, so no unwrap of a cause's text fails, and no stack
\* inverted_error_tree removes its first error from is empty.
C24_NoPanic ==
    /\ (is_some(display_info) /\ is_none(display_string)) =>
           /\ EveryCauseHasText(Info)
           /\ is_some(as_display_string_int(Info, FALSE))
    /\ Called("inverted_error_tree") =>
           /\ ~unwrap(call).panicked
           /\ NoneEmpty(revese_errors_int(unwrap(call).self, <<>>, <<>>))

\* A tree with two explained causes, one of them with an explained cause of
\* its own, both inverted and rendered to a text.
C24_Witness ==
    /\ Called("inverted_error_tree")
    /\ Len(unwrap(call).res) = 2
    /\ is_some(display_string)
    /\ Len(Info.explained_causes) = 2
    /\ \E k \in 1..2 : Len(Info.explained_causes[k].explained_causes) = 1

\* ---------------------------------------------------------------- the fields of a text
\* C25 as stated: the text of an error without a reason has the stand-in line
\* "Error: Unexplained error" only when that line is all of the text; with
\* another field to show there is no Error line.
C25_StandInOnlyAlone ==
    (is_some(display_string) /\ is_none(Info.reason)) =>
        (HasTheLine(Text, STR_ErrorUnexplainedError) => Text = STR_ErrorUnexplainedError)

\* The labels of the fields an info has to show, in the order Position, At,
\* Error, Solution, Has, Cause or Causes.  Error is always among them: a
\* reason that is absent is shown by its stand-in.
LabelsOf(info) ==
    (IF info.on_line_and_column # None THEN <<STR_Position>> ELSE <<>>)
    \o (IF info.at # None THEN <<STR_At>> ELSE <<>>)
    \o <<STR_Error>>
    \o (IF info.solution # None THEN <<STR_Solution>> ELSE <<>>)
    \o (IF info.unexplained_causes > 0 \/ Len(info.explained_causes) > 1
        THEN <<STR_Has>> ELSE <<>>)
    \o (IF Len(info.explained_causes) = 0 THEN <<>>
        ELSE IF Len(info.explained_causes) = 1 /\ info.unexplained_causes = 0
             THEN <<STR_Cause>> ELSE <<STR_Causes>>)

\* The lines of a text that do not begin with a space: the first lines of
\* the fields of the node the text is of.
FirstLinesOf(text) ==
    LET NotIndented(line) == Len(line) = 0 \/ line[1] # " "
    IN  SelectSeq(lines(text), NotIndented)

\* The first lines are those of the labels, in their order, each after the lead.
LabelledInOrder(first_lines, lead, labels) ==
    /\ Len(first_lines) = Len(labels)
    /\ \A k \in 1..Len(labels) :
           StartsWith(first_lines[k], lead \o labels[k] \o STR_ColonSpace)

RECURSIVE CausesLabelledInOrder(_)
\* Every explained cause, at every depth, has its fields in order after "- ".
CausesLabelledInOrder(info) ==
    \A k \in 1..Len(info.explained_causes) :
        /\ LabelledInOrder(
               FirstLinesOf(unwrap(as_display_string_int(info.explained_causes[k], TRUE))),
               STR_DashSpace, LabelsOf(info.explained_causes[k]))
        /\ CausesLabelledInOrder(info.explained_causes[k])

\* The lines of the text of a direct cause are lines of the text of its
\* parent, two spaces further in.
CausesWithin(text, info) ==
    \A k \in 1..Len(info.explained_causes) :
        \A line \in {FirstLinesOf(unwrap(as_display_string_int(info.explained_causes[k],
                                                                TRUE)))[j] :
                         j \in 1..Len(LabelsOf(info.explained_causes[k]))} :
            HasTheLine(text, Spaces(2) \o line)

\* C26: in the text of every rendered node the fields that are present appear
\* once each, in the order Position, At, Error, Solution, Has, Cause/Causes;
\* the first line of each field of a nested cause has "- " before its label,
\* and no field of the top-level node has.
C26_FieldsInOrder ==
    is_some(display_string) =>
        /\ LabelledInOrder(FirstLinesOf(Text), <<>>, LabelsOf(Info))
        /\ CausesLabelledInOrder(Info)
        /\ CausesWithin(Text, Info)

\* An error with a start point, a location, a solution and an explained
\* cause that has a solution too, displayed: five fields, two in the cause.
C26_Witness ==
    /\ is_some(display_string)
    /\ LabelsOf(Info) = <<STR_Position, STR_At, STR_Error, STR_Solution, STR_Cause>>
    /\ LabelsOf(Info.explained_causes[1]) = <<STR_Error, STR_Solution>>

\* ---------------------------------------------------------------- indentation
RECURSIVE JoinedBy(_, _)
\* The texts with the separator between each two of them.
JoinedBy(separator, texts) ==
    IF Len(texts) = 0 THEN <<>>
    ELSE IF Len(texts) = 1 THEN texts[1]
    ELSE texts[1] \o separator \o JoinedBy(separator, Tail(texts))

RECURSIVE ExpectedText(_, _, _)
\* The text of a node when the lines after the first of each field are behind
\* as many spaces as the field's label is wide ("- " of a cause and ": "
\* included), except the fields of the capped labels, whose lines are behind
\* 2 spaces and 2 more in a cause.
ExpectedText(info, is_cause, capped) ==
    LET Lead == IF is_cause THEN STR_DashSpace ELSE <<>>
        Width(label) == Len(Lead) + Len(label) + Len(STR_ColonSpace)
        Indent(label) ==
            IF label \in capped
            THEN Smaller(Width(label), IF is_cause THEN 4 ELSE 2)
            ELSE Width(label)
        Causes ==
            [k \in 1..Len(info.explained_causes) |->
                (IF Len(info.explained_causes) = 1 THEN <<>>
                 ELSE STR_CauseNo \o to_string(k) \o STR_SpaceDash \o LF)
                \o ExpectedText(info.explained_causes[k], TRUE, capped)]
        Contents(label) ==
            IF label = STR_Position THEN unwrap(location_of(info))
            ELSE IF label = STR_At THEN unwrap(info.at)
            ELSE IF label = STR_Error THEN unwrap(description_of(info))
            ELSE IF label = STR_Solution THEN unwrap(info.solution)
            ELSE IF label = STR_Has
                 THEN unwrap(causes_count_of(info.unexplained_causes,
                                             Len(info.explained_causes)))
            ELSE LF \o JoinedBy(LF \o LF, Causes)
        Field(label) ==
            Lead \o label \o STR_ColonSpace
            \o IndentAfterLineFeeds(Contents(label), Indent(label))
    IN  JoinedBy(LF, [k \in 1..Len(LabelsOf(info)) |-> Field(LabelsOf(info)[k])])

\* C27 as stated: the lines after the first of Error, Solution and Has are
\* aligned under the first character after the label; those of Causes,
\* Position and At are behind a capped width of 2 spaces.
C27_Original ==
    is_some(display_string) =>
        Text = ExpectedText(Info, FALSE, {STR_Position, STR_At, STR_Cause, STR_Causes})

\* C27: the lines after the first of Position, At, Error, Solution and Has
\* are aligned under the first character after the label; only those of the
\* Cause/Causes field are behind a capped width, 2 spaces at the top level
\* and 4 in a cause.
C27_OnlyCausesCapped ==
    is_some(display_string) =>
        Text = ExpectedText(Info, FALSE, {STR_Cause, STR_Causes})

\* An error with a location of two lines and a cause whose explanation has
\* two lines, displayed.
C27_Witness ==
    /\ is_some(display_string)
    /\ Root.where_ = Some(InputSlice(0, 5))
    /\ Len(Info.explained_causes) = 1
    /\ Root.causes[1].error_detail = Some(DetailLines)
    /\ HasTheLine(Text, Spaces(4) \o <<"c">>)
    /\ HasTheLine(Text, Spaces(2 + 9) \o <<"y">>)

\* ---------------------------------------------------------------- join_strings
\* The strings that are not empty, in order.
NonEmptyOf(strings) ==
    LET NotEmpty(string) == string # <<>> IN SelectSeq(strings, NotEmpty)

\* The text holds the part somewhere.
Holds(text, part) ==
    \E k \in 0..(Len(text) - Len(part)) : SubSeq(text, k + 1, k + Len(part)) = part

\* s ends with suffix
EndsWith(s, suffix) ==
    Len(s) >= Len(suffix) /\ SubSeq(s, Len(s) - Len(suffix) + 1, Len(s)) = suffix

CodesOf(style) ==
    LET Wraps(attribute) ==
            /\ attribute # "Clear"
            /\ style.style_const # None
            /\ attribute \in style.style_const[1]
    IN  (IF style.background = None THEN <<>> ELSE <<"on_" \o style.background[1]>>)
        \o (IF style.foreground = None THEN <<>> ELSE <<style.foreground[1]>>)
        \o SelectSeq(STYLES, Wraps)

\* The text inside one wrapper for each code, the last code outermost.
Wrapped(text, codes) ==
    [k \in 1..Len(codes) |-> "ESC[" \o codes[Len(codes) + 1 - k] \o "m"]
    \o text
    \o [k \in 1..Len(codes) |-> "ESC[0m"]

RECURSIVE Rebuilt(_, _, _, _)
\* The characters from offset from on, each segment from segment k on inside
\* its wrappers, the characters outside the segments as they are.
Rebuilt(chars, segments, k, from) ==
    IF k > Len(segments) THEN SubSeq(chars, from + 1, Len(chars))
    ELSE SubSeq(chars, from + 1, segments[k][1])
         \o Wrapped(SubSeq(chars, segments[k][1] + 1, segments[k][2]),
                    CodesOf(segments[k][3]))
         \o Rebuilt(chars, segments, k + 1, segments[k][2])

\* The reset sequences of a text: one for each wrapper.
WrappersIn(text) ==
    LET IsReset(char) == char = "ESC[0m" IN Len(SelectSeq(text, IsReset))

\* The text of the call without wrappers is the input; no kept marker is
\* empty; without kept markers the result is the input.
TextKept(c) ==
    /\ Unstyled(c.res) = c.input.chars
    /\ \A k \in 1..Len(c.ranges_and_modifiers) :
           c.ranges_and_modifiers[k][1] < c.ranges_and_modifiers[k][2]
    /\ Len(c.ranges_and_modifiers) = 0 => c.res = c.input.chars

\* C29 as stated: the result without its wrappers is the input, each segment
\* has at most one wrapper, an empty marker is dropped, and without markers
\* the result is the input.
C29_Original ==
    Called("colorize") =>
        /\ TextKept(unwrap(call))
        /\ \A k \in 1..Len(unwrap(call).segments) :
               WrappersIn(modified_of(SubSeq(unwrap(call).input.chars,
                                             unwrap(call).segments[k][1] + 1,
                                             unwrap(call).segments[k][2]),
                                      unwrap(call).segments[k][3], SHOULD_COLORIZE)) <= 1

\* C29: the result without its wrappers is the input, an empty marker is
\* dropped, without markers the result is the input, and the result is the
\* input with each segment inside one wrapper for each of the background,
\* the foreground and the attributes other than clear of its merged style,
\* the characters in their order.
C29_TextPreserved ==
    Called("colorize") =>
        /\ TextKept(unwrap(call))
        /\ unwrap(call).res =
               Rebuilt(unwrap(call).input.chars, unwrap(call).segments, 1, 0)

\* colorize of the input with a blue and bold marker on input[1..3] and an
\* empty marker: one segment inside two wrappers, the text around it kept.
C29_Witness ==
    /\ Called("colorize")
    /\ unwrap(call).input = Input
    /\ unwrap(call).general_colorization = None
    /\ Len(unwrap(call).input_modifiers) = 2
    /\ unwrap(call).input_modifiers[1].str = InputSlice(2, 2)
    /\ unwrap(call).res = <<" ", "ESC[Boldm", "ESC[bluem", "a", "b", "ESC[0m", "ESC[0m", "\n", "c">>

\* ---------------------------------------------------------------- the flag
\* A step that is a call of as_display_struct.
RenderStep == is_none(display_info) /\ is_some(display_info')

\* C30: a call of as_display_struct with colorize = true (every Display is
\* one) does not write the flag, and its text has no styling when the flag
\* says not to colorize; a call with colorize = false writes the flag only
\* when the flag said to colorize at the start of the call; no call leaves
\* the flag saying to colorize when it did not before.
C30_OnlyTowardsOff ==
    /\ [][RenderStep =>
             /\ unwrap(display_call)'.colorize => SHOULD_COLORIZE' = SHOULD_COLORIZE
             /\ ~should_colorize(SHOULD_COLORIZE) => SHOULD_COLORIZE' = SHOULD_COLORIZE
             /\ should_colorize(SHOULD_COLORIZE)' => should_colorize(SHOULD_COLORIZE)]_vars
    /\ []((/\ is_some(display_string)
           /\ unwrap(display_call).colorize
           /\ ~should_colorize(SHOULD_COLORIZE)) => WrappersIn(Text) = 0)

\* An error with a location and markers rendered with colorize = false and
\* then displayed with colorize = true, the environment saying to colorize
\* and an override saying not to.
C30_Witness ==
    /\ is_some(display_string)
    /\ Len(earlier) = 1
    /\ ~Before.call.colorize
    /\ unwrap(display_call).colorize
    /\ SHOULD_COLORIZE = set_override(ShouldColorize_new(TRUE), FALSE)
    /\ is_some(Root.where_)
    /\ Root.error_detail = Some(DetailMarked)

====
